---- MODULE Spec2Model ----
(***************************************************************************)
(* reportobello-python: the client library (reportobello.py) and the CLI   *)
(* (cli.py).  The library is modelled as one client operation at a time    *)
(* (a single thread of control that suspends on every network call): a     *)
(* call builds its request, the remote service answers, the transport      *)
(* wrapper (get/post/delete) inspects the status, the endpoint's own code  *)
(* maps the response to a value or an exception, and the CLI command that  *)
(* made the call turns the result into output and an exit status.  The     *)
(* watch loop of the CLI is modelled next to it with the watched file as   *)
(* its environment.                                                        *)
(*                                                                         *)
(* Python's None is the empty sequence <<>> and a present value x is <<x>>.*)
(***************************************************************************)
EXTENDS Integers, Sequences, FiniteSets, TLC

VARIABLES
    store,       \* remote service: template name -> bodies, oldest first
    pc,          \* position of the client operation in flight
    op,          \* the operation in flight and its arguments
    sent,        \* requests the operation in flight has issued, in order
    resp,        \* the response the remote service put on the wire
    got,         \* the Response the transport handed back to the calling operation
    outcome,     \* what the library call returned or raised
    cmd,         \* CLI command that made the call ("lib": called as a library)
    exit,        \* how the CLI process ended
    msg,         \* what the CLI command printed last
    written,     \* the file the CLI command wrote, if any
    lastUp,      \* history: per name, the last upload the service accepted
    client,      \* the AsyncClient of the process's ReportobelloApi: "none", "open", "closed"
    sigint,      \* history: the process was interrupted (KeyboardInterrupt)
    given,       \* history: the content and file arguments of the last Template(...)
    wpc,         \* watch_command: position in the loop
    old_mtime,   \* watch_command: old_mtime
    mtime,       \* watch_command: mtime, what the last stat() that succeeded read
    fileExists,  \* watched file: present on disk
    fileMtime,   \* watched file: st_mtime
    compiles,    \* history: calls of compiler.compile made by the loop
    failedAt,    \* history: the st_mtime that triggered the last compile that raised
    increases,   \* history: times the file's st_mtime went up since the loop started
    decreases,   \* history: times the file's st_mtime went down since the loop started
    atStart,     \* history: compiles triggered before the file's st_mtime first went up
    lastTrig,    \* history: the st_mtime the last compile was triggered by
    seenMax,     \* history: the largest st_mtime any poll has read (0 before the first)
    records      \* history: polls that read an st_mtime above every earlier one and above 0

apiVars   == <<store, pc, op, sent, resp, got, outcome, cmd, exit, msg, written, lastUp,
               client, sigint, given>>
watchVars == <<wpc, old_mtime, mtime, fileExists, fileMtime, compiles, failedAt, increases,
               decreases, atStart, lastTrig, seenMax, records>>
vars      == <<apiVars, watchVars>>

-----------------------------------------------------------------------------
(* Bounds of the model *)

MaxVersions == 2     \* template versions the service holds, over all names
MaxMtime    == 3     \* largest st_mtime the watched file takes
MaxSetBacks == 1     \* times the watched file's st_mtime is moved backwards

-----------------------------------------------------------------------------
(* Values *)

None    == <<>>
Some(x) == <<x>>
Truthy(o) == o # None /\ o[1] # ""
\* Python's `a or b`
Or(a, b) == IF Truthy(a) THEN a ELSE b

Names     == {"invoice", "a b.typ"}
Bodies    == {"", "Hello", "Hello v2"}
\* local template files and what read_text() gives for them
Files     == {"invoice.typ", "empty.typ"}
ReadText(f) == IF f = "invoice.typ" THEN "Hello v2" ELSE ""
\* auxiliary data files a caller may attach
DataFiles == {"logo.png", "huge.bin"}
\* data handed to a remote build
BuildData == {"good", "malformed"}

\* urllib.parse.quote(name, safe="")
quote(n) == IF n = "a b.typ" THEN "a%20b.typ" ELSE n
\* arg.template.endswith((".typ", ".typst"))
EndsWithTyp(n) == n = "a b.typ"

-----------------------------------------------------------------------------
(* Domain model: Template *)

\* class-level defaults of the dataclass Template (self.__class__.name, ...)
TemplateCls == [name |-> "", content |-> None, file |-> None]
Classes     == {TemplateCls}

\* Template.__init__ followed by __post_init__: the instance, or
\* ReportobelloMissingTemplateName
PostInit(cls, name, content, file, version) ==
    LET name1 == IF name = "" THEN cls.name ELSE name
    IN  [ok |-> name1 # "",
         t  |-> [name    |-> name1,
                 content |-> Or(content, cls.content),
                 file    |-> Or(file, cls.file),
                 version |-> version]]

\* Template.from_json: cls(content=data.pop("template"), **data)
from_json(cls, data) ==
    PostInit(cls, data.name, Some(data.template), None, data.version)

-----------------------------------------------------------------------------
(* Requests, responses, results *)

TemplatesUrl   == "/api/v1/templates"
TemplateUrl(n) == "/api/v1/template/" \o quote(n)
FilesUrl(n)    == TemplateUrl(n) \o "/files"
RecentUrl(n)   == TemplateUrl(n) \o "/recent"
BuildUrl(n)    == TemplateUrl(n) \o "/build?justUrl"
\* the URL the service answers a successful build with
PdfUrl(n)      == "/api/v1/files/" \o quote(n) \o ".pdf"

Request(method, url, content, files, data) ==
    [method |-> method, url |-> url, content |-> content, files |-> files, data |-> data]

ReasonPhrase(st) ==
    CASE st = 200 -> "OK"
      [] st = 302 -> "Found"
      [] st = 400 -> "Bad Request"
      [] st = 401 -> "Unauthorized"
      [] st = 404 -> "Not Found"
      [] st = 413 -> "Request Entity Too Large"
      [] st = 500 -> "Internal Server Error"
      [] st = 503 -> "Service Unavailable"

\* body text of the service's non-JSON answers
BodyText(st) ==
    CASE st = 302 -> ""
      [] st = 400 -> "error: expected object, found string"
      [] st = 401 -> "Invalid API key"
      [] st = 404 -> "Template not found"
      [] st = 413 -> "File is too big"
      [] st = 500 -> "<html>500</html>"
      [] st = 503 -> "<html>503</html>"

JsonResponse(j) ==
    [status |-> 200, reason |-> ReasonPhrase(200), text |-> "<json>", isJson |-> TRUE, json |-> j]
TextResponse(st, text) ==
    [status |-> st, reason |-> ReasonPhrase(st), text |-> text, isJson |-> FALSE, json |-> <<>>]
ErrorResponse(st) == TextResponse(st, BodyText(st))
NoResponse == [status |-> 0, reason |-> "", text |-> "", isJson |-> FALSE, json |-> <<>>]

Raise(exc, error) ==
    [kind |-> "raise", exc |-> exc, error |-> error, what |-> "", value |-> <<>>]
Return(what, value) ==
    [kind |-> "return", exc |-> "", error |-> "", what |-> what, value |-> value]
NoOutcome == [kind |-> "none", exc |-> "", error |-> "", what |-> "", value |-> <<>>]

\* an operation in flight: the method, the template name it is about, the
\* Template it was given (if any), the data files and the version asked for
Op(kind, name, t, files, version) ==
    [kind |-> kind, name |-> name, t |-> t, files |-> files, version |-> version]
NoOp == Op("none", "", None, {}, -1)

-----------------------------------------------------------------------------
(* The remote service.  Its code is not part of the client; it is modelled  *)
(* from the HTTP surface the client consumes: versions count up from 1 per  *)
(* template name, a version list is sent newest first, an unknown template  *)
(* is a 404, a failed build is a 400, an oversized data file is a 413.      *)

NameOrder == <<"a b.typ", "invoice">>

\* the JSON object the service sends for version v of template n
Wire(st, n, v) == [name |-> n, version |-> v, template |-> st[n][v]]

\* GET /api/v1/template/{name}: every version, newest first
ServiceVersions(st, n) ==
    [i \in 1..Len(st[n]) |-> Wire(st, n, Len(st[n]) - i + 1)]

\* GET /api/v1/templates: the latest version of every template
ServiceTemplates(st) ==
    LET known == SelectSeq(NameOrder, LAMBDA n : st[n] # <<>>)
    IN  [i \in 1..Len(known) |-> Wire(st, known[i], Len(st[known[i]]))]

\* versions held over all template names
Held(st) == Len(st["invoice"]) + Len(st["a b.typ"])

Pending == sent[Len(sent)]

Answer(r) ==
    /\ resp' = r
    /\ pc' = "received"
    /\ UNCHANGED <<op, sent, got, outcome, cmd, exit, msg, written, client, sigint, given, watchVars>>

ServicePostTemplate ==
    /\ pc = "awaiting"
    /\ \E n \in Names :
        /\ Pending.method = "POST" /\ Pending.url = TemplateUrl(n)
        /\ Held(store) < MaxVersions
        /\ store' = [store EXCEPT ![n] = Append(@, Pending.content[1])]
        /\ lastUp' = [lastUp EXCEPT ![n] =
                        Some([body |-> Pending.content[1], prev |-> Len(store[n])])]
        /\ Answer(JsonResponse(<<Wire(store', n, Len(store'[n]))>>))

ServiceGetVersions ==
    /\ pc = "awaiting"
    /\ \E n \in Names :
        /\ Pending.method = "GET" /\ Pending.url = TemplateUrl(n)
        /\ Answer(IF store[n] = <<>> THEN ErrorResponse(404)
                  ELSE JsonResponse(ServiceVersions(store, n)))
    /\ UNCHANGED <<store, lastUp>>

ServiceGetTemplates ==
    /\ pc = "awaiting"
    /\ Pending.method = "GET" /\ Pending.url = TemplatesUrl
    /\ Answer(JsonResponse(ServiceTemplates(store)))
    /\ UNCHANGED <<store, lastUp>>

ServiceDeleteTemplate ==
    /\ pc = "awaiting"
    /\ \E n \in Names :
        /\ Pending.method = "DELETE" /\ Pending.url = TemplateUrl(n)
        /\ IF store[n] = <<>>
             THEN /\ Answer(ErrorResponse(404))
                  /\ UNCHANGED <<store, lastUp>>
             ELSE /\ store' = [store EXCEPT ![n] = <<>>]
                  /\ lastUp' = [lastUp EXCEPT ![n] = None]
                  /\ Answer(TextResponse(200, ""))

ServicePostFiles ==
    /\ pc = "awaiting"
    /\ \E n \in Names :
        /\ Pending.method = "POST" /\ Pending.url = FilesUrl(n)
        /\ Answer(IF store[n] = <<>> THEN ErrorResponse(404)
                  ELSE IF "huge.bin" \in Pending.files THEN ErrorResponse(413)
                  ELSE TextResponse(200, ""))
    /\ UNCHANGED <<store, lastUp>>

\* the files a template has attached are kept by the service and read by no
\* endpoint of the client; the build history is not kept either: a known template answers with a list
\* of zero or one build records
ServiceGetRecent ==
    /\ pc = "awaiting"
    /\ \E n \in Names :
        /\ Pending.method = "GET" /\ Pending.url = RecentUrl(n)
        /\ IF store[n] = <<>>
             THEN Answer(ErrorResponse(404))
             ELSE \E k \in 0..1 :
                    Answer(JsonResponse([i \in 1..k |->
                        [template_name |-> n, requested_version |-> -1,
                         actual_version |-> Len(store[n]), error_message |-> None]]))
    /\ UNCHANGED <<store, lastUp>>

ServicePostBuild ==
    /\ pc = "awaiting"
    /\ \E n \in Names :
        /\ Pending.method = "POST" /\ Pending.url = BuildUrl(n)
        /\ Answer(IF store[n] = <<>> THEN ErrorResponse(404)
                  ELSE IF Pending.data = Some("malformed") THEN ErrorResponse(400)
                  ELSE TextResponse(200, PdfUrl(n)))
    /\ UNCHANGED <<store, lastUp>>

ServiceGetPdf ==
    /\ pc = "awaiting"
    /\ \E n \in Names :
        /\ Pending.method = "GET" /\ Pending.url = PdfUrl(n)
        /\ Answer(TextResponse(200, "%PDF"))
    /\ UNCHANGED <<store, lastUp>>

\* any request may instead be refused or fail: a bad key, a redirect, a
\* rejected body, a fault of the service
FaultStatuses == {400, 401, 404, 413, 500, 503}

ServiceFault ==
    /\ pc = "awaiting"
    /\ \E st \in FaultStatuses : Answer(ErrorResponse(st))
    /\ UNCHANGED <<store, lastUp>>

-----------------------------------------------------------------------------
(* API transport *)

\* the check with `> 500` for `>= 500`
handle_common_error_codes_above_500(r) ==
    IF r.status = 401 THEN Raise("ReportobelloUnauthorized", r.text)
    ELSE IF r.status > 500 THEN Raise("ReportobelloServerError", r.reason)
    ELSE NoOutcome

\* ReportobelloApi._handle_common_error_codes: the exception it raises, or
\* NoOutcome when it returns
_handle_common_error_codes(r) ==
    IF r.status = 401 THEN Raise("ReportobelloUnauthorized", r.text)
    ELSE IF r.status >= 500 THEN Raise("ReportobelloServerError", r.reason)
    ELSE NoOutcome

\* the body shared by get, post and delete, after the awaited client call
Transport(method) ==
    /\ pc = "received"
    /\ Pending.method = method
    /\ LET e == _handle_common_error_codes(resp)
       IN  IF e.kind = "raise"
             THEN pc' = "done" /\ outcome' = e /\ got' = None
             ELSE pc' = "endpoint" /\ outcome' = outcome /\ got' = Some(resp)
    /\ UNCHANGED <<store, op, sent, resp, cmd, exit, msg, written, lastUp, client, sigint, given, watchVars>>

get    == Transport("GET")
post   == Transport("POST")
delete == Transport("DELETE")

-----------------------------------------------------------------------------
(* Template client: each method up to its request, and what it makes of the *)
(* response the transport hands back                                        *)

\* the method issues request r and awaits the answer
Call(c, o, r) ==
    /\ pc = "idle"
    /\ pc' = "awaiting"
    /\ op' = o
    /\ sent' = <<r>>
    /\ cmd' = c
    /\ UNCHANGED <<store, resp, got, outcome, exit, msg, written, lastUp, sigint, watchVars>>
    /\ client' = "open"

\* the method ends with result out before any request
Early(c, o, out) ==
    /\ pc = "idle"
    /\ pc' = "done"
    /\ op' = o
    /\ outcome' = out
    /\ cmd' = c
    /\ UNCHANGED <<store, sent, resp, got, exit, msg, written, lastUp, sigint, watchVars>>
    /\ client' = "open"

\* the endpoint's own handling of the response ends the method with out
Finish(kind, out) ==
    /\ pc = "endpoint"
    /\ op.kind = kind
    /\ pc' = "done"
    /\ outcome' = out
    /\ UNCHANGED <<store, op, sent, resp, got, cmd, exit, msg, written, lastUp, client, sigint, given, watchVars>>

\* the text create_or_update_template uploads: <<content>>, or None when the
\* method runs into `assert False`
UploadBody(t) ==
    IF t.content # None THEN Some(t.content[1])
    ELSE IF Truthy(t.file) THEN Some(ReadText(t.file[1]))
    ELSE None

create_or_update_template(c, t) ==
    LET o == Op("create_or_update_template", t.name, Some(t), {}, -1)
    IN  IF UploadBody(t) = None
          THEN Early(c, o, Raise("AssertionError", ""))
          ELSE /\ Held(store) < MaxVersions
               /\ Call(c, o, Request("POST", TemplateUrl(t.name), UploadBody(t), {}, None))

create_or_update_template_result(r) ==
    IF ~r.isJson THEN Raise("JSONDecodeError", "")
    ELSE Return("template", <<from_json(TemplateCls, r.json[1]).t>>)

create_or_update_template_end ==
    Finish("create_or_update_template", create_or_update_template_result(got[1]))

upload_data_files(c, n, files) ==
    LET o == Op("upload_data_files", n, None, files, -1)
    IN  IF files = {}
          THEN Early(c, o, Return("none", <<>>))
          ELSE Call(c, o, Request("POST", FilesUrl(n), None, files, None))

\* upload_data_files without its 413 check
upload_data_files_result_no_413(r) ==
    IF r.status = 400 THEN Raise("ReportobelloException", r.text)
    ELSE IF r.status = 404 THEN Raise("ReportobelloTemplateNotFound", r.text)
    ELSE Return("none", <<>>)

upload_data_files_result(r) ==
    IF r.status = 400 THEN Raise("ReportobelloException", r.text)
    ELSE IF r.status = 404 THEN Raise("ReportobelloTemplateNotFound", r.text)
    ELSE IF r.status = 413 THEN Raise("ReportobelloFileTooBig", r.text)
    ELSE Return("none", <<>>)

upload_data_files_end == Finish("upload_data_files", upload_data_files_result(got[1]))

get_recent_builds(c, n) ==
    Call(c, Op("get_recent_builds", n, None, {}, -1),
         Request("GET", RecentUrl(n), None, {}, None))

get_recent_builds_result(r) ==
    IF r.status = 404 THEN Raise("ReportobelloTemplateNotFound", r.text)
    ELSE IF ~r.isJson THEN Raise("JSONDecodeError", "")
    ELSE Return("reports", r.json)

get_recent_builds_end == Finish("get_recent_builds", get_recent_builds_result(got[1]))

get_templates(c) ==
    Call(c, Op("get_templates", "", None, {}, -1),
         Request("GET", TemplatesUrl, None, {}, None))

get_templates_result(r) ==
    IF ~r.isJson THEN Raise("JSONDecodeError", "")
    ELSE Return("templates", [i \in 1..Len(r.json) |-> from_json(TemplateCls, r.json[i]).t])

get_templates_end == Finish("get_templates", get_templates_result(got[1]))

get_template_versions(c, n, version) ==
    Call(c, Op("get_template_versions", n, None, {}, version),
         Request("GET", TemplateUrl(n), None, {}, None))

\* the list built back to front
get_template_versions_result_reversed(r) ==
    IF r.status = 404 THEN Raise("ReportobelloTemplateNotFound", r.text)
    ELSE IF ~r.isJson THEN Raise("JSONDecodeError", "")
    ELSE Return("templates",
                [i \in 1..Len(r.json) |-> from_json(TemplateCls, r.json[Len(r.json) - i + 1]).t])

get_template_versions_result(r) ==
    IF r.status = 404 THEN Raise("ReportobelloTemplateNotFound", r.text)
    ELSE IF ~r.isJson THEN Raise("JSONDecodeError", "")
    ELSE Return("templates", [i \in 1..Len(r.json) |-> from_json(TemplateCls, r.json[i]).t])

get_template_versions_end ==
    Finish("get_template_versions", get_template_versions_result(got[1]))

\* isTemplate: the caller passed a Template (not a name); data: None or the data
build_template(c, n, isTemplate, data) ==
    LET o == Op("build_template", n, None, {}, -1)
    IN  IF data = None /\ ~isTemplate
          THEN Early(c, o, Raise("AssertionError", "if data is unset, template must be a Template"))
          ELSE Call(c, o, Request("POST", BuildUrl(n), None, {},
                                  IF data = None THEN Some("{}") ELSE data))

\* build_template without `assert resp.status_code == 200`
build_template_result_no_assert(r) ==
    IF r.status = 400 THEN Raise("ReportobelloReportBuildFailure", r.text)
    ELSE IF r.status = 404 THEN Raise("ReportobelloTemplateNotFound", r.text)
    ELSE Return("lazypdf", <<[url |-> r.text]>>)

build_template_result(r) ==
    IF r.status = 400 THEN Raise("ReportobelloReportBuildFailure", r.text)
    ELSE IF r.status = 404 THEN Raise("ReportobelloTemplateNotFound", r.text)
    ELSE IF r.status # 200 THEN Raise("AssertionError", "")
    ELSE Return("lazypdf", <<[url |-> r.text]>>)

build_template_end == Finish("build_template", build_template_result(got[1]))

delete_template(c, n) ==
    Call(c, Op("delete_template", n, None, {}, -1),
         Request("DELETE", TemplateUrl(n), None, {}, None))

delete_template_result(r) == Return("none", <<>>)

delete_template_end == Finish("delete_template", delete_template_result(got[1]))

-----------------------------------------------------------------------------
(* Domain model: LazyPdf *)

\* a second call by the holder of the LazyPdf that build_template returned
Resolve(kind, w) ==
    /\ pc = "done"
    /\ outcome.kind = "return" /\ outcome.what = "lazypdf"
    /\ pc' = "awaiting"
    /\ op' = Op(kind, op.name, None, {}, -1)
    /\ sent' = <<Request("GET", outcome.value[1].url, None, {}, None)>>
    /\ outcome' = NoOutcome
    /\ got' = None
    /\ written' = w
    /\ UNCHANGED <<store, resp, cmd, exit, msg, lastUp, client, sigint, given, watchVars>>

\* LazyPdf.save_to: open(path, "wb+") creates or empties the file, then the GET
save_to(path) == Resolve("save_to", Some([path |-> path, text |-> ""]))

save_to_end ==
    /\ pc = "endpoint"
    /\ op.kind = "save_to"
    /\ pc' = "done"
    /\ outcome' = Return("none", <<>>)
    /\ written' = Some([path |-> written[1].path, text |-> got[1].text])
    /\ UNCHANGED <<store, op, sent, resp, got, cmd, exit, msg, lastUp, client, sigint, given, watchVars>>

as_blob == cmd = "lib" /\ Resolve("as_blob", written)

as_blob_end == Finish("as_blob", Return("bytes", <<got[1].text>>))

-----------------------------------------------------------------------------
(* CLI commands: each up to its library call, and what it does with the     *)
(* result                                                                   *)

\* Path(f).stem, Path(t).with_suffix(".pdf"), Path(t).with_suffix("")
Stem(f)          == IF f = "invoice.typ" THEN "invoice" ELSE "empty"
WithPdfSuffix(t) == IF t = "a b.typ" THEN "a b.pdf" ELSE t \o ".pdf"
WithoutSuffix(t) == IF t = "a b.typ" THEN "a b" ELSE t

\* the process ends: sys.exit(1) after a message, a normal return, or an
\* exception nothing catches ("crash")
Exit(how, m) ==
    /\ pc' = "exited"
    /\ exit' = how
    /\ msg' = m
    /\ UNCHANGED <<store, op, sent, resp, got, outcome, cmd, lastUp, client, sigint, given, watchVars>>

\* get_api() when REPORTOBELLO_API_KEY is not set
MissingApiKey ==
    /\ pc = "idle"
    /\ \E c \in {"ls", "push", "pull", "rm", "build", "builds ls"} : cmd' = c
    /\ pc' = "exited"
    /\ exit' = "exit1"
    /\ msg' = "Missing API key. Set the REPORTOBELLO_API_KEY env var"
    /\ UNCHANGED <<store, op, sent, resp, got, outcome, written, lastUp, client, sigint, given, watchVars>>

\* main(): an exception that left the command
\* main's handler of an interrupt: the notice is printed and main returns;
\* no handler, and no other line of the program, closes the AsyncClient
KeyboardInterrupt ==
    /\ exit' = "exit0"
    /\ msg' = "Exiting..."
    /\ sigint' = TRUE

main_except(out) ==
    IF out.exc = "ReportobelloUnauthorized"
      THEN Exit("exit1", "Unauthorized: Is your API key or host URL set incorrectly?")
      ELSE Exit("crash", out.exc)

Ended(c) == pc = "done" /\ cmd = c

ls_command(t) ==
    IF t = None THEN get_templates("ls") ELSE get_template_versions("ls", t[1], -1)

ls_command_end ==
    /\ Ended("ls")
    /\ IF outcome.kind = "raise"
         THEN IF op.kind = "get_template_versions" /\ outcome.exc = "ReportobelloTemplateNotFound"
                THEN Exit("exit1", "Error: Template not found")
                ELSE main_except(outcome)
         ELSE Exit("exit0", "")
    /\ UNCHANGED written

push_command(file, t) ==
    IF file \notin Files
      THEN /\ pc = "idle"
           /\ cmd' = "push"
           /\ pc' = "exited"
           /\ exit' = "exit1"
           /\ msg' = "File does not exist"
           /\ UNCHANGED <<store, op, sent, resp, got, outcome, written, lastUp, sigint, given,
                          watchVars>>
           /\ client' = "open"
      ELSE LET template_name == IF Truthy(t) THEN t[1] ELSE Stem(file)
               p == PostInit(TemplateCls, template_name, None, Some(file), -1)
           IN  /\ template_name \in Names
               /\ given' = Some([content |-> None, file |-> Some(file)])
               /\ create_or_update_template("push", p.t)

push_command_end ==
    /\ Ended("push")
    /\ IF outcome.kind = "raise"
         THEN main_except(outcome)
         ELSE Exit("exit0", "Uploaded template successfully!")
    /\ UNCHANGED written

pull_command(t, version) == get_template_versions("pull", t, version)

pull_command_end ==
    /\ Ended("pull")
    /\ IF outcome.kind = "raise"
         THEN /\ IF outcome.exc = "ReportobelloTemplateNotFound"
                   THEN Exit("exit1", "Template was not found")
                   ELSE main_except(outcome)
              /\ UNCHANGED written
         ELSE LET templates == outcome.value
                  hits == {i \in 1..Len(templates) : templates[i].version = op.version}
                  i == IF op.version = -1 THEN 1 ELSE CHOOSE j \in hits : \A k \in hits : j <= k
              IN  IF templates = <<>>
                    THEN Exit("crash", "IndexError") /\ UNCHANGED written
                    ELSE IF op.version # -1 /\ hits = {}
                    THEN Exit("exit1", "Template version was not found") /\ UNCHANGED written
                    ELSE /\ Exit("exit0", "Downloaded template successfully!")
                         /\ written' = Some([path |-> templates[i].name \o ".typ",
                                             text |-> Or(templates[i].content, Some(""))[1]])

rm_command(t) == delete_template("rm", t)

rm_command_end ==
    /\ Ended("rm")
    /\ IF outcome.kind = "raise"
         THEN IF outcome.exc = "ReportobelloTemplateNotFound"
                THEN Exit("exit1", "Could not find template")
                ELSE main_except(outcome)
         ELSE Exit("exit0", "Removed template successfully!")
    /\ UNCHANGED written

\* build_command without --local
build_command(t, data) ==
    build_template("build", PostInit(TemplateCls, t, None, None, -1).t.name, TRUE, Some(data))

\* build_template returned: pdf.save_to(output_file)
build_command_save ==
    /\ cmd = "build"
    /\ save_to(WithPdfSuffix(op.name))

build_command_end ==
    /\ Ended("build")
    /\ IF outcome.kind = "raise"
         THEN IF op.kind = "build_template" /\ outcome.exc = "ReportobelloTemplateNotFound"
                   /\ EndsWithTyp(op.name)
                THEN Exit("exit1", "Did you mean to build " \o WithoutSuffix(op.name) \o "?")
                ELSE main_except(outcome)
         ELSE op.kind = "save_to" /\ Exit("exit0", "Saving PDF to " \o WithPdfSuffix(op.name))
    /\ UNCHANGED written

builds_ls_command(t) == get_recent_builds("builds ls", t)

builds_ls_command_end ==
    /\ Ended("builds ls")
    /\ IF outcome.kind = "raise" THEN main_except(outcome) ELSE Exit("exit0", "")
    /\ UNCHANGED written

\* Ctrl-C while a command's client operation is in flight: asyncio.run
\* cancels the task wherever it is suspended and main catches the interrupt
Interrupt ==
    /\ cmd \notin {"none", "lib"}
    /\ pc \in {"awaiting", "received", "endpoint", "done"}
    /\ pc' = "exited"
    /\ KeyboardInterrupt
    /\ UNCHANGED <<store, op, sent, resp, got, outcome, cmd, written, lastUp, client, given,
                   watchVars>>

\* the next use of the library, or the next run of the CLI
Again ==
    /\ \/ pc = "exited"
       \/ pc = "done" /\ cmd = "lib"
    /\ pc' = "idle"
    /\ op' = NoOp
    /\ sent' = <<>>
    /\ resp' = NoResponse
    /\ got' = None
    /\ outcome' = NoOutcome
    /\ cmd' = "none"
    /\ exit' = "none"
    /\ msg' = ""
    /\ written' = None
    /\ client' = "none"
    /\ sigint' = FALSE
    /\ given' = None
    /\ UNCHANGED <<store, lastUp, watchVars>>

-----------------------------------------------------------------------------
(* watch_command.  The loop is Idle in "poll" and "sleep" and Rebuilding in *)
(* "rebuild"; other processes change the watched file at any time.          *)

\* the comparison with `<` for `<=`
NotNewer_strict(m, old) == m < old

\* `if mtime <= old_mtime`: nothing new to build
NotNewer(m, old) == m <= old

\* the loop keeping the value it had recorded
Recorded_stale(m, old) == old

\* `old_mtime = mtime`: the value the loop records before it compiles
Recorded(m, old) == m

\* one iteration up to the compile: stat(), the comparison, old_mtime = mtime;
\* a stat() that raises FileNotFoundError leaves mtime as it was
Poll ==
    /\ wpc = "poll"
    /\ mtime' = IF fileExists THEN Some(fileMtime) ELSE mtime
    /\ IF fileExists /\ ~NotNewer(fileMtime, old_mtime)
         THEN /\ wpc' = "rebuild"
              /\ old_mtime' = Recorded(fileMtime, old_mtime)
              /\ atStart' = IF increases = 0 THEN atStart + 1 ELSE atStart
         ELSE /\ wpc' = "sleep"
              /\ UNCHANGED <<old_mtime, atStart>>
    /\ IF fileExists /\ fileMtime > seenMax
         THEN seenMax' = fileMtime /\ records' = records + 1
         ELSE UNCHANGED <<seenMax, records>>
    /\ UNCHANGED <<fileExists, fileMtime, compiles, failedAt, increases, decreases,
                   lastTrig, apiVars>>

\* the loop without its `except RuntimeError`: the exception leaves the loop
AfterCompile_uncaught(ok) == IF ok THEN "sleep" ELSE "crashed"

\* what the loop does once compiler.compile has returned (ok) or raised
\* RuntimeError (~ok): the except clause prints and the loop goes on
AfterCompile(ok) == "sleep"

\* compiler.compile(output_file), inside try/except RuntimeError
Compile ==
    /\ wpc = "rebuild"
    /\ \E ok \in BOOLEAN :
        /\ wpc' = AfterCompile(ok)
        /\ failedAt' = IF ok THEN failedAt ELSE old_mtime
    /\ compiles' = compiles + 1
    /\ lastTrig' = old_mtime
    /\ UNCHANGED <<old_mtime, fileExists, fileMtime, increases, decreases, atStart, apiVars>>
    /\ UNCHANGED <<mtime, seenMax, records>>

\* await asyncio.sleep(0.01) returns
Wake ==
    /\ wpc = "sleep"
    /\ wpc' = "poll"
    /\ UNCHANGED <<old_mtime, fileExists, fileMtime, compiles, failedAt, increases,
                   decreases, atStart, lastTrig, apiVars>>
    /\ UNCHANGED <<mtime, seenMax, records>>

\* KeyboardInterrupt: asyncio.run unwinds and main() prints "Exiting..."
Cancel ==
    /\ wpc \in {"poll", "rebuild", "sleep"}
    /\ wpc' = "cancelled"
    /\ KeyboardInterrupt
    /\ UNCHANGED <<store, pc, op, sent, resp, got, outcome, cmd, written, lastUp, client, given>>
    /\ UNCHANGED <<old_mtime, fileExists, fileMtime, compiles, failedAt, increases,
                   decreases, atStart, lastTrig>>
    /\ UNCHANGED <<mtime, seenMax, records>>

\* the environment: the file is saved (st_mtime goes up), gets an older
\* st_mtime, is moved away, is moved back
Touch ==
    /\ fileExists
    /\ \E m \in (fileMtime + 1)..MaxMtime : fileMtime' = m
    /\ increases' = increases + 1
    /\ UNCHANGED <<wpc, old_mtime, fileExists, compiles, failedAt, decreases,
                   atStart, lastTrig, apiVars>>
    /\ UNCHANGED <<mtime, seenMax, records>>

SetBack ==
    /\ fileExists
    /\ decreases < MaxSetBacks
    /\ \E m \in 0..(fileMtime - 1) : fileMtime' = m
    /\ decreases' = decreases + 1
    /\ UNCHANGED <<wpc, old_mtime, fileExists, compiles, failedAt, increases,
                   atStart, lastTrig, apiVars>>
    /\ UNCHANGED <<mtime, seenMax, records>>

Remove ==
    /\ fileExists
    /\ fileExists' = FALSE
    /\ UNCHANGED <<wpc, old_mtime, fileMtime, compiles, failedAt, increases,
                   decreases, atStart, lastTrig, apiVars>>
    /\ UNCHANGED <<mtime, seenMax, records>>

Restore ==
    /\ ~fileExists
    /\ fileExists' = TRUE
    /\ UNCHANGED <<wpc, old_mtime, fileMtime, compiles, failedAt, increases,
                   decreases, atStart, lastTrig, apiVars>>
    /\ UNCHANGED <<mtime, seenMax, records>>

-----------------------------------------------------------------------------
(* Specifications *)

ApiStart ==
    /\ store = [n \in Names |-> <<>>]
    /\ pc = "idle"
    /\ op = NoOp
    /\ sent = <<>>
    /\ resp = NoResponse
    /\ got = None
    /\ outcome = NoOutcome
    /\ cmd = "none"
    /\ exit = "none"
    /\ msg = ""
    /\ written = None
    /\ lastUp = [n \in Names |-> None]
    /\ client = "none"
    /\ sigint = FALSE
    /\ given = None

\* watch_command up to `while True`: old_mtime = 0
WatchStart ==
    /\ wpc = "poll"
    /\ old_mtime = 0
    /\ compiles = 0
    /\ failedAt = 0
    /\ increases = 0
    /\ decreases = 0
    /\ atStart = 0
    /\ lastTrig = 0
    /\ mtime = None
    /\ seenMax = 0
    /\ records = 0

\* the library and the CLI's one-shot commands; no watch loop runs
Init ==
    /\ ApiStart
    /\ WatchStart
    /\ fileExists = TRUE
    /\ fileMtime = 1

OptBodies == {None} \cup {Some(b) : b \in Bodies}
OptFiles  == {None} \cup {Some(f) : f \in Files}
OptNames  == {None} \cup {Some(n) : n \in Names}

\* the caller constructs a Template and uploads it
LibCreate ==
    \E cls \in Classes, n \in Names \cup {""}, content \in OptBodies, file \in OptFiles :
        LET p == PostInit(cls, n, content, file, -1)
        IN  /\ given' = Some([content |-> content, file |-> file])
            /\ IF p.ok
                  THEN create_or_update_template("lib", p.t)
                  ELSE Early("lib", Op("Template", "", None, {}, -1),
                             Raise("ReportobelloMissingTemplateName", ""))

LibCall ==
    /\ \/ \E n \in Names, files \in SUBSET DataFiles : upload_data_files("lib", n, files)
       \/ \E n \in Names : get_recent_builds("lib", n)
       \/ get_templates("lib")
       \/ \E n \in Names : get_template_versions("lib", n, -1)
       \/ \E n \in Names, isTemplate \in BOOLEAN, data \in {None} \cup {Some(d) : d \in BuildData} :
             build_template("lib", n, isTemplate, data)
       \/ \E n \in Names : delete_template("lib", n)
       \/ cmd = "lib" /\ save_to("out.pdf")
       \/ as_blob
    /\ UNCHANGED given

CliCommand ==
    \/ \E file \in Files \cup {"nofile.typ"}, t \in OptNames : push_command(file, t)
    \/ /\ \/ \E t \in OptNames : ls_command(t)
          \/ \E t \in Names, version \in {-1} \cup 1..(MaxVersions + 1) : pull_command(t, version)
          \/ \E t \in Names : rm_command(t)
          \/ \E t \in Names, data \in BuildData : build_command(t, data)
          \/ \E t \in Names : builds_ls_command(t)
          \/ MissingApiKey
       /\ UNCHANGED given

Next ==
    \/ LibCreate
    \/ LibCall
    \/ CliCommand
    \/ ServicePostTemplate
    \/ ServiceGetVersions
    \/ ServiceGetTemplates
    \/ ServiceDeleteTemplate
    \/ ServicePostFiles
    \/ ServiceGetRecent
    \/ ServicePostBuild
    \/ ServiceGetPdf
    \/ ServiceFault
    \/ get
    \/ post
    \/ delete
    \/ create_or_update_template_end
    \/ upload_data_files_end
    \/ get_recent_builds_end
    \/ get_templates_end
    \/ get_template_versions_end
    \/ build_template_end
    \/ delete_template_end
    \/ save_to_end
    \/ as_blob_end
    \/ ls_command_end
    \/ push_command_end
    \/ pull_command_end
    \/ rm_command_end
    \/ build_command_save
    \/ build_command_end
    \/ builds_ls_command_end
    \/ Interrupt
    \/ Again

Spec == Init /\ [][Next]_vars

\* the watch loop and the watched file; the library is not used
WatchInit ==
    /\ ApiStart
    /\ WatchStart
    /\ fileExists \in BOOLEAN
    /\ fileMtime \in 0..MaxMtime

WatchNext ==
    \/ Poll
    \/ Compile
    \/ Wake
    \/ Cancel
    \/ Touch
    \/ SetBack
    \/ Remove
    \/ Restore

WatchSpec == WatchInit /\ [][WatchNext]_vars

\* the event loop runs the watch task whenever it can run: a sleep returns,
\* a poll and a compile complete
WatchFairSpec ==
    WatchSpec /\ WF_vars(Poll) /\ WF_vars(Compile) /\ WF_vars(Wake)

-----------------------------------------------------------------------------
(* Properties *)

\* the library call in flight has ended (and the CLI may have exited on it)
Over == pc \in {"done", "exited"} /\ ~sigint

\* C1: on every request, whatever the method, a 401 answer raises
\* ReportobelloUnauthorized carrying the response body and an answer >= 500
\* raises ReportobelloServerError carrying the reason phrase, and the response
\* never reaches the endpoint's own handling; every other answer is handed
\* to the calling operation as it came.
C1_TransportRaisesFirst ==
    /\ pc = "endpoint" =>
          /\ resp.status # 401 /\ resp.status < 500
          /\ got = Some(resp)
    /\ (Over /\ sent # <<>> /\ resp.status = 401) =>
          /\ outcome = Raise("ReportobelloUnauthorized", resp.text)
          /\ got = None
    /\ (Over /\ sent # <<>> /\ resp.status >= 500) =>
          /\ outcome = Raise("ReportobelloServerError", resp.reason)
          /\ got = None
    /\ (Over /\ sent # <<>> /\ resp.status # 401 /\ resp.status < 500) =>
          got = Some(resp)

\* a build request answered 500 ended in ReportobelloServerError, before the
\* build's own assertion could see the response
C1_Witness ==
    /\ pc = "done"
    /\ op.kind = "build_template"
    /\ resp.status = 500
    /\ outcome = Raise("ReportobelloServerError", "Internal Server Error")

\* C2: delete_template raises ReportobelloTemplateNotFound when the DELETE is
\* answered 404, so that rm prints "Could not find template" and exits 1.
C2_DeleteRaisesNotFound ==
    /\ (Over /\ op.kind = "delete_template" /\ resp.status = 404) =>
          outcome = Raise("ReportobelloTemplateNotFound", resp.text)
    /\ (pc = "exited" /\ ~sigint /\ cmd = "rm" /\ op.kind = "delete_template"
            /\ resp.status = 404) =>
          exit = "exit1" /\ msg = "Could not find template"

\* C3: build_template issues one POST to the build URL and maps its answer:
\* 200 to a LazyPdf whose url is the response body, 400 to
\* ReportobelloReportBuildFailure with the response text, 404 to
\* ReportobelloTemplateNotFound, anything else it is handed to an
\* AssertionError; no LazyPdf comes from an answer other than 200.
C3_BuildStatusMapping ==
    (Over /\ op.kind = "build_template" /\ sent # <<>>) =>
        /\ Len(sent) = 1
        /\ sent[1].method = "POST" /\ sent[1].url = BuildUrl(op.name)
        /\ got # None =>
              outcome = CASE resp.status = 200 -> Return("lazypdf", <<[url |-> resp.text]>>)
                          [] resp.status = 400 ->
                                Raise("ReportobelloReportBuildFailure", resp.text)
                          [] resp.status = 404 ->
                                Raise("ReportobelloTemplateNotFound", resp.text)
                          [] OTHER -> Raise("AssertionError", "")
        /\ outcome.what = "lazypdf" => resp.status = 200

\* a build answered 413 was handed to build_template and failed its assertion
C3_Witness ==
    /\ pc = "done"
    /\ op.kind = "build_template"
    /\ resp.status = 413
    /\ got = Some(resp)
    /\ outcome.exc = "AssertionError"

\* the loop is Idle and has recorded the st_mtime the file has now
Settled == wpc \in {"poll", "sleep"} /\ fileExists /\ old_mtime = fileMtime

\* C4 as stated: in a run in which the file's st_mtime went up exactly once
\* since the loop started, the loop has compiled exactly once.
C4_OneIncreaseOneCompile ==
    (increases = 1 /\ decreases = 0 /\ Settled) => compiles = 1

\* C4 as amended: one compile is triggered by each poll that finds the file
\* with an st_mtime above the recorded value, which starts at 0.  So the file
\* as found is compiled once before any change (unless its st_mtime is 0, or
\* the change comes before the first poll that finds the file), a single
\* increase adds exactly one compile, there is never more than one compile
\* more than increases, and a poll that finds the file missing triggers none.
C4_OneCompilePerObservedIncrease ==
    /\ [](compiles <= increases + 1 /\ atStart <= 1)
    /\ []((increases <= 1 /\ decreases = 0 /\ Settled) => compiles = atStart + increases)
    /\ []((increases = 0 /\ decreases = 0 /\ Settled /\ fileMtime > 0) => compiles = 1)
    /\ [][(wpc = "poll" /\ ~fileExists) => (compiles' = compiles /\ wpc' # "rebuild")]_vars

\* the file was compiled as found, then saved once and compiled again
C4_Witness ==
    /\ increases = 1 /\ decreases = 0 /\ Settled
    /\ atStart = 1
    /\ compiles = 2

\* C5: a compile that raises does not end the loop: after every attempt the
\* loop is Idle again with the triggering st_mtime recorded, no st_mtime is
\* compiled twice, only cancellation ends the loop, and an st_mtime above
\* the recorded one is eventually compiled (or a later one is) unless the
\* loop is cancelled or the file is removed or set back first.
C5_FailureNeverEndsLoop ==
    /\ [](wpc \in {"poll", "rebuild", "sleep", "cancelled"})
    /\ [](wpc = "rebuild" => old_mtime > lastTrig)
    /\ [][wpc = "rebuild" =>
            /\ wpc' \in {"rebuild", "sleep", "cancelled"}
            /\ wpc' = "sleep" => (compiles' = compiles + 1 /\ lastTrig' = old_mtime
                                  /\ old_mtime' = old_mtime)]_vars
    /\ \A m \in 1..MaxMtime :
          (wpc # "cancelled" /\ fileExists /\ fileMtime = m /\ old_mtime < m)
              ~> (lastTrig >= m \/ wpc = "cancelled" \/ ~fileExists \/ fileMtime < m)

\* a compile raised, and a later save of the file was compiled
C5_Witness ==
    /\ wpc = "sleep"
    /\ failedAt > 0
    /\ lastTrig > failedAt

\* C6: the list get_template_versions returns holds every version of the
\* template, newest first: index 1 is the latest and each version number is
\* above the next one.
C6_VersionsNewestFirst ==
    (Over /\ op.kind = "get_template_versions" /\ outcome.kind = "return") =>
        LET versions == outcome.value
        IN  /\ Len(versions) = Len(store[op.name])
            /\ versions # <<>> => versions[1].version = Len(store[op.name])
            /\ \A i \in 1..(Len(versions) - 1) : versions[i].version > versions[i + 1].version
            /\ {versions[i].version : i \in 1..Len(versions)} = 1..Len(store[op.name])

\* a template with two versions was listed
C6_Witness ==
    /\ pc = "done"
    /\ op.kind = "get_template_versions"
    /\ outcome.kind = "return"
    /\ Len(outcome.value) = 2

\* C7: after an accepted upload to a name, get_template_versions of that name
\* returns a list whose first element has the uploaded body as content and a
\* version one above the previous latest (1 for a first upload).
C7_UploadThenFirstVersion ==
    (Over /\ op.kind = "get_template_versions" /\ outcome.kind = "return"
          /\ lastUp[op.name] # None) =>
        /\ outcome.value[1].content = Some(lastUp[op.name][1].body)
        /\ outcome.value[1].version = lastUp[op.name][1].prev + 1

\* C8: a ReportobelloTemplateNotFound raised to ls, pull, rm, build or
\* builds ls ends the command with a message and exit status 1, never as an
\* uncaught exception.
C8_NotFoundNeverCrashes ==
    (pc = "exited" /\ ~sigint /\ cmd \in {"ls", "pull", "rm", "build", "builds ls"}
        /\ outcome.kind = "raise" /\ outcome.exc = "ReportobelloTemplateNotFound") =>
        exit = "exit1"

\* C9: the content of the Template that from_json rebuilds from the service's
\* echo of an upload is the content that was sent as the body.
C9_ContentRoundTrip ==
    (Over /\ op.kind = "create_or_update_template" /\ outcome.kind = "return") =>
        outcome.value[1].content = sent[1].content

\* C10: upload_data_files with no files ends without a request; with files
\* it issues one POST to the template's /files URL and maps the answer it is
\* handed: 413 to ReportobelloFileTooBig, 404 to ReportobelloTemplateNotFound,
\* 400 to ReportobelloException, anything else to a normal return.
C10_UploadDataFiles ==
    (Over /\ op.kind = "upload_data_files") =>
        IF op.files = {}
          THEN /\ sent = <<>>
               /\ resp = NoResponse
               /\ outcome = Return("none", <<>>)
          ELSE /\ Len(sent) = 1
               /\ sent[1] = Request("POST", FilesUrl(op.name), None, op.files, None)
               /\ got # None =>
                    outcome = CASE resp.status = 413 ->
                                     Raise("ReportobelloFileTooBig", resp.text)
                                [] resp.status = 404 ->
                                     Raise("ReportobelloTemplateNotFound", resp.text)
                                [] resp.status = 400 ->
                                     Raise("ReportobelloException", resp.text)
                                [] OTHER -> Return("none", <<>>)

\* a file too big for the service was uploaded to a known template
C10_Witness ==
    /\ pc = "done"
    /\ op.kind = "upload_data_files"
    /\ "huge.bin" \in op.files
    /\ store[op.name] # <<>>
    /\ outcome.exc = "ReportobelloFileTooBig"

\* C11: once an interrupt has ended the program, whether it arrived in the
\* watch loop or while a client operation was awaiting its response, the exit
\* notice has been printed and the client's connection is no longer open.
C11_InterruptReleasesClient ==
    (sigint /\ (pc = "exited" \/ wpc = "cancelled")) =>
        (msg = "Exiting..." /\ client # "open")

\* C12: a call of create_or_update_template sends one body, chosen from what
\* the Template was constructed with: its content argument whenever one was
\* given, any string included and whether or not a file was given too; the
\* text of its file only when no content was given; and when neither was
\* given no request is sent and the call ends in an AssertionError.
C12_OneBodyPerCall ==
    (Over /\ op.kind = "create_or_update_template" /\ given # None) =>
        IF given[1].content # None
          THEN /\ Len(sent) = 1
               /\ sent[1].content = given[1].content
        ELSE IF given[1].file # None
          THEN /\ Len(sent) = 1
               /\ sent[1].content = Some(ReadText(given[1].file[1]))
        ELSE /\ sent = <<>>
             /\ outcome = Raise("AssertionError", "")

\* C13: the recorded st_mtime never goes down; the loop enters a compile only
\* from a poll that read an st_mtime strictly above the recorded value, and
\* has recorded that st_mtime when the compile starts; a poll that reads an
\* equal or lower st_mtime triggers no compile and records nothing; every
\* compile is one call made by an iteration that has triggered it; and the
\* compiles made never outnumber the polls that read an st_mtime above every
\* one read before.
C13_MtimeNeverDecreases ==
    /\ [][old_mtime' >= old_mtime]_vars
    /\ [][(wpc # "rebuild" /\ wpc' = "rebuild") =>
            /\ wpc = "poll"
            /\ mtime' # None
            /\ mtime'[1] > old_mtime
            /\ old_mtime' = mtime'[1]
            /\ compiles' = compiles]_vars
    /\ [][(wpc = "poll" /\ fileExists /\ fileMtime <= old_mtime) =>
            (wpc' # "rebuild" /\ old_mtime' = old_mtime /\ compiles' = compiles)]_vars
    /\ [][compiles' # compiles =>
            /\ wpc = "rebuild"
            /\ mtime = Some(old_mtime)
            /\ old_mtime > lastTrig
            /\ compiles' = compiles + 1]_vars
    /\ [](compiles <= records)
    /\ [](wpc = "rebuild" => compiles < records)

\* after a compile the file's st_mtime was moved backwards, and the poll that
\* read the older st_mtime went to sleep without compiling or recording it
C13_Witness ==
    /\ wpc = "sleep"
    /\ compiles = 1
    /\ decreases = 1
    /\ mtime # None
    /\ mtime[1] < old_mtime
    /\ lastTrig = old_mtime

=============================================================================
